---- MODULE Spec2Model ----
(***************************************************************************)
(* The ledger state store of TripTracker (src/components/Dashboard.tsx):   *)
(* the in-memory `ledgers` collection, the handlers that mutate it, the    *)
(* remote relational store and object store they call, and the derived     *)
(* computations of src/components/LedgerDetails.tsx.                       *)
(*                                                                         *)
(* Every handler is an async function.  Each action below is one           *)
(* synchronous stretch of a handler: from its call (or from the arrival of *)
(* a response) to its next await.  A remote call is executed by the server *)
(* in the action that issues it when the stretch before it changes no      *)
(* shared state, and in an action of its own otherwise; its response is    *)
(* always handled in a later action, so other handlers interleave between  *)
(* the remote effect and the local update.                                 *)
(*                                                                         *)
(* Abstractions: ids are integers (the server assigns them from a          *)
(* counter); an entry keeps id, type, dateTime, amount and attachments     *)
(* (details, category and mode are copied through by the code and never    *)
(* inspected); dateTime is the value new Date(dateTime).getTime() yields;  *)
(* a storage path `${userId}/${entryId}/${file_name}` is the tuple of its  *)
(* three parts; the remote select returns rows in id order where the       *)
(* query states no order.                                                  *)
(***************************************************************************)
EXTENDS Integers, Sequences, FiniteSets, TLC

\* ---------------------------------------------------------------- bounds
\* Handler calls made by the user after the mount.
MaxOps == 2
\* Handlers in flight at the same time.
MaxTasks == 2
\* Entry dateTime values the forms offer: 1..MaxDate.
MaxDate == 2
\* Entries of the ledger whose derived values are computed.
MaxEntries == 3
\* Bits of a number's significand (53 in JavaScript).
SignificandBits == 6
\* Milliseconds of a day (86400000 in JavaScript).
MsPerDay == 2

\* ------------------------------------------------------------ JS values
\* The value of a property that is absent (JavaScript's undefined).
Undef == "undefined"
\* A path that is not set.
NoPath == <<>>
UserId == "u1"
NoUser == "nouser"

Truthy(s) == s # Undef /\ s # ""

\* String.prototype.startsWith('data:') on the data values of the model.
StartsWithData(s) == s = "data:image"

\* String.prototype.trim on the names of the model.
Trim(s) ==
  CASE s = " Trips " -> "Trips"
    [] s = "trips "  -> "trips"
    [] s = "  "      -> ""
    [] OTHER         -> s

\* String.prototype.toLowerCase on the names of the model.
ToLowerCase(s) ==
  CASE s = "Trips"   -> "trips"
    [] s = " Trips " -> " trips "
    [] s = "Food"    -> "food"
    [] OTHER         -> s

\* The remote store keeps timestamps to the microsecond and JavaScript to the
\* millisecond: new Date(iso).getTime() drops the finer part, and
\* new Date(ms).toISOString() writes it as zero.
TicksPerMs == 2
GetTime(iso) == iso \div TicksPerMs
ToISOString(ms) == ms * TicksPerMs

\* new Date(new Date(ms).toISOString().split('T')[0]).getTime(): the start of
\* the day of ms.
DayStart(ms) == (ms \div MsPerDay) * MsPerDay

\* JavaScript numbers are binary floating point: the result of + and - is the
\* exact result rounded to the nearest number with SignificandBits bits (ties
\* to the even significand).  The model's numbers are integers.
RECURSIVE Pow2(_)
Pow2(n) == IF n = 0 THEN 1 ELSE 2 * Pow2(n - 1)

RECURSIVE Ulp(_)
Ulp(m) == IF m < Pow2(SignificandBits) THEN 1 ELSE 2 * Ulp(m \div 2)

RoundMagnitude(m) ==
  LET u == Ulp(m)
      q == m \div u
      r == m % u
  IN IF 2 * r < u THEN q * u
     ELSE IF 2 * r > u THEN (q + 1) * u
     ELSE IF q % 2 = 0 THEN q * u ELSE (q + 1) * u

Number(x) == IF x < 0 THEN 0 - RoundMagnitude(0 - x) ELSE RoundMagnitude(x)
Plus(a, b) == Number(a + b)
Minus(a, b) == Number(a - b)

\* ------------------------------------------------------------ sequences
Range(s) == {s[i] : i \in 1..Len(s)}

\* Array.prototype.map with the callback f, a function on the elements of s.
MapSeq(s, f) == [i \in 1..Len(s) |-> f[s[i]]]

\* The rows of a table in id order.
RECURSIVE SeqById(_)
SeqById(S) ==
  IF S = {} THEN <<>>
  ELSE LET m == CHOOSE x \in S : \A y \in S : x.id <= y.id
       IN <<m>> \o SeqById(S \ {m})

\* Array.prototype.sort((a, b) => time(a.dateTime) - time(b.dateTime)): a stable
\* sort, so e is placed after every element it does not precede.
RECURSIVE InsertByDate(_, _)
InsertByDate(sorted, e) ==
  IF sorted = <<>> THEN <<e>>
  ELSE IF Head(sorted).dateTime <= e.dateTime
       THEN <<Head(sorted)>> \o InsertByDate(Tail(sorted), e)
       ELSE <<e>> \o sorted

RECURSIVE SortByDateTime(_)
SortByDateTime(s) ==
  IF s = <<>> THEN <<>>
  ELSE InsertByDate(SortByDateTime(SubSeq(s, 1, Len(s) - 1)), s[Len(s)])

\* ledgers ordered by created_at descending (ties in id order).
RECURSIVE OrderByCreatedDesc(_)
OrderByCreatedDesc(S) ==
  IF S = {} THEN <<>>
  ELSE LET m == CHOOSE x \in S : \A y \in S :
                  \/ x.created_at > y.created_at
                  \/ x.created_at = y.created_at /\ x.id <= y.id
       IN <<m>> \o OrderByCreatedDesc(S \ {m})

\* ------------------------------------------------------------- the state
VARIABLES
  ledgers,      \* useState<Ledger[]>: the local collection
  ledgerError,  \* useState('') of the create dialog
  isDeleting,   \* useState(false) of the ledger delete dialog
  loader,       \* [shows, hides]: calls of showLoading and hideLoading
  tasks,        \* the handlers in flight, by slot
  dbLedgers,    \* remote table ledgers
  dbEntries,    \* remote table entries
  dbAtts,       \* remote table attachments
  blobs,        \* remote object store: the paths written, with their writes
  nextId,       \* the server's id counter
  now,          \* the server's clock
  user,         \* what supabase.auth.getUser() returns: UserId or NoUser
  ops,          \* handler calls made so far
  last,         \* what the last step did
  view,         \* LedgerDetails: the memoized tableData and stats of a ledger
  activeLedgerId \* useState<string | null>(null): the ledger that is open

vars == <<ledgers, ledgerError, isDeleting, loader, tasks, dbLedgers, dbEntries,
          dbAtts, blobs, nextId, now, user, ops, last, view, activeLedgerId>>

Slots == 1..MaxTasks
Dates == 1..MaxDate

\* ------------------------------------------------------- records and seed
\* An attachment as the entry form makes it (LedgerDetails.tsx handleFiles):
\* { id, name, data, type }, so file_name and file_path are absent.
FormAttachment(id, name) ==
  [id |-> id, name |-> name, file_name |-> Undef, data |-> "data:image",
   file_path |-> NoPath, url |-> NoPath]

NoView == [rendered |-> FALSE, tableData |-> <<>>,
           stats |-> [cashIn |-> 0, cashOut |-> 0, net |-> 0]]

NoEntry == [id |-> 0, type |-> "in", dateTime |-> 0, amount |-> 0, attachments |-> <<>>]
NoLedgerRow == [id |-> 0, name |-> "", created_at |-> 0]
\* activeLedgerId when no ledger is open (null).
NoLedger == 0

Idle == [op |-> "idle", pc |-> "idle", lid |-> 0, entry |-> NoEntry, ids |-> {},
         name |-> "", createdAt |-> 0, hasCreatedAt |-> FALSE, uid |-> NoUser,
         res |-> "ok", row |-> NoEntry, lrow |-> NoLedgerRow,
         snap |-> <<>>, atts |-> <<>>, active |-> NoLedger]

\* What a step reports: the handler stretch that ran, the alert it raised
\* ("" for none), whether it issued a remote call, and the name it was given
\* (a ledger name typed by the user; for fetchData, who called it) and the
\* ledger id it was given (0 for none).
StepFor(act, alert, remote, arg, id) ==
  [act |-> act, alert |-> alert, remote |-> remote, arg |-> arg, id |-> id]
StepOf(act, alert, remote, arg) == StepFor(act, alert, remote, arg, 0)
Step(act, alert, remote) == StepOf(act, alert, remote, "")

FreeSlots == {s \in Slots : tasks[s].op = "idle"}
FreeSlot == CHOOSE s \in FreeSlots : \A t \in FreeSlots : s <= t
CanCall == ops < MaxOps /\ FreeSlots # {}

showLoading(l) == [l EXCEPT !.shows = @ + 1]
\* Faulty variant: the call does not reach the loader.
hideLoading_skipped(l) == l

hideLoading(l) == [l EXCEPT !.hides = @ + 1]

\* The remote store a session starts from: one ledger with three entries
\* (in 100, out 40, in 10), the second with a stored attachment.
SeedLedgers == {[id |-> 1, name |-> "Trips", created_at |-> 6]}
SeedEntries ==
  { [id |-> 2, ledger_id |-> 1, type |-> "in",  date_time |-> 1, amount |-> 100],
    [id |-> 3, ledger_id |-> 1, type |-> "out", date_time |-> 2, amount |-> 40],
    [id |-> 4, ledger_id |-> 1, type |-> "in",  date_time |-> 2, amount |-> 10] }
SeedAtts ==
  { [id |-> 5, entry_id |-> 3, file_name |-> "f", file_path |-> <<UserId, 3, "f">>] }
SeedBlobs == { [path |-> <<UserId, 3, "f">>, by |-> 0] }

\* ------------------------------------------------------- the remote store
\* How a remote call can end.  With a session: it is carried out, or it fails
\* (network, constraint, policy).  Without one: it fails, or, for a filter
\* that the row-level policy leaves without rows, it succeeds on no rows.
Outcomes(kind, uid) ==
  IF uid = UserId /\ user = UserId THEN {"ok", "error"}
  ELSE IF kind = "insert" THEN {"error"}
  ELSE {"error", "norows"}

\* supabase.storage.getPublicUrl(path).data.publicUrl
PublicUrl(path) == <<"public">> \o path

\* fetchData lines 59-69: one attachment row as the model's attachment.
FormatAttachment(att) ==
  [id |-> att.id, name |-> Undef, file_name |-> att.file_name, data |-> Undef,
   file_path |-> att.file_path, url |-> PublicUrl(att.file_path)]

\* fetchData lines 56-70: one entry row with its nested attachment rows.
FormatEntry(e, attRows) ==
  [id |-> e.id, type |-> e.type, dateTime |-> e.date_time, amount |-> e.amount,
   attachments |->
     MapSeq(SeqById({a \in attRows : a.entry_id = e.id}),
            [a \in attRows |-> FormatAttachment(a)])]

\* fetchData lines 39-71: the select of ledgers with nested entries and
\* attachments, ordered by created_at descending, as formattedLedgers.
FormattedLedgers(ledgerRows, entryRows, attRows) ==
  LET FormatE == [e \in entryRows |-> FormatEntry(e, attRows)]
      FormatL ==
        [l \in ledgerRows |->
          [id |-> l.id, name |-> l.name, createdAt |-> GetTime(l.created_at),
           entries |->
             SortByDateTime(MapSeq(SeqById({e \in entryRows : e.ledger_id = l.id}),
                                   FormatE))]]
  IN MapSeq(OrderByCreatedDesc(ledgerRows), FormatL)

\* What a fresh loadAll would put into `ledgers` now.
FreshLoad == FormattedLedgers(dbLedgers, dbEntries, dbAtts)

\* fetchData lines 36-48: showLoading and the select, up to the await.
FetchTasks(caller) ==
  { [Idle EXCEPT !.op = "fetch", !.pc = "resp", !.res = r, !.name = caller,
                 !.snap = IF r = "ok" THEN FreshLoad ELSE <<>>]
    : r \in Outcomes("select", UserId) }

LedgerIds == {ledgers[i].id : i \in 1..Len(ledgers)}
LedgerOf(lid) == ledgers[CHOOSE i \in 1..Len(ledgers) : ledgers[i].id = lid]

\* Faulty variant: the map changes the entries of every ledger.
MapEntries_everyLedger(prev, ledgerId, f) ==
  [i \in 1..Len(prev) |-> [prev[i] EXCEPT !.entries = f[prev[i]]]]

\* setLedgers(prev => prev.map(l => l.id === ledgerId ? {...l, entries: f(l)} : l))
MapEntries(prev, ledgerId, f) ==
  [i \in 1..Len(prev) |->
     IF prev[i].id = ledgerId THEN [prev[i] EXCEPT !.entries = f[prev[i]]]
     ELSE prev[i]]

Init ==
  /\ ledgers = <<>>
  /\ ledgerError = ""
  /\ isDeleting = FALSE
  /\ loader = [shows |-> 1, hides |-> 0]
  /\ user = UserId
  /\ dbLedgers = SeedLedgers
  /\ dbEntries = SeedEntries
  /\ dbAtts = SeedAtts
  /\ blobs = SeedBlobs
  /\ nextId = 6
  /\ now = 7
  /\ ops = 0
  /\ last = Step("mount", "", TRUE)
  /\ view = NoView
  /\ activeLedgerId = NoLedger
  /\ \E t \in FetchTasks("mount") :
       tasks = [s \in Slots |-> IF s = 1 THEN t ELSE Idle]

\* ---------------------------------------------------------------- loadAll
\* Faulty variant: setLedgers reached with whatever the select returned.
fetchData_set_always(prev, t) == t.snap

\* fetchData lines 50-75: setLedgers(formattedLedgers), or the error is logged.
fetchData_set(prev, t) == IF t.res = "error" THEN prev ELSE t.snap

\* fetchData lines 50-78: the response of the select.
fetchData_resolve(s) ==
  /\ tasks[s].op = "fetch" /\ tasks[s].pc = "resp"
  /\ ledgers' = fetchData_set(ledgers, tasks[s])
  /\ loader' = hideLoading(loader)
  /\ tasks' = [tasks EXCEPT ![s] = Idle]
  /\ last' = StepOf(IF tasks[s].res = "error" THEN "fetchData_error" ELSE "fetchData",
                    "", FALSE, tasks[s].name)
  /\ UNCHANGED <<view, activeLedgerId, ledgerError, isDeleting, dbLedgers, dbEntries, dbAtts, blobs,
                 nextId, now, user, ops>>

\* ------------------------------------------- opening and leaving a ledger
\* handleOpenLedger lines 81-88 and handleBackToDashboard lines 90-96:
\* showLoading and a timer (600 ms, 400 ms).
StartTimer(op, id) ==
  /\ CanCall
  /\ ops' = ops + 1
  /\ loader' = showLoading(loader)
  /\ tasks' = [tasks EXCEPT ![FreeSlot] =
                 [Idle EXCEPT !.op = op, !.pc = "timeout", !.lid = id]]
  /\ last' = StepFor(op, "", FALSE, "", id)
  /\ UNCHANGED <<view, activeLedgerId, ledgers, ledgerError, isDeleting, dbLedgers,
                 dbEntries, dbAtts, blobs, nextId, now, user>>

handleOpenLedger(id) == StartTimer("handleOpenLedger", id)

handleBackToDashboard == StartTimer("handleBackToDashboard", NoLedger)

\* Lines 84-87 and 92-95: the timer's callback sets activeLedgerId and calls
\* hideLoading.
Timeout(op, s) ==
  /\ tasks[s].op = op /\ tasks[s].pc = "timeout"
  /\ activeLedgerId' = tasks[s].lid
  /\ loader' = hideLoading(loader)
  /\ tasks' = [tasks EXCEPT ![s] = Idle]
  /\ last' = Step(op \o "_timeout", "", FALSE)
  /\ UNCHANGED <<view, ledgers, ledgerError, isDeleting, dbLedgers, dbEntries, dbAtts,
                 blobs, nextId, now, user, ops>>

handleOpenLedger_timeout(s) == Timeout("handleOpenLedger", s)

handleBackToDashboard_timeout(s) == Timeout("handleBackToDashboard", s)

\* ----------------------------------------------------------- reorderEntries
\* Faulty variant: a move past either end wraps round to the other end.
moveEntry_wrap(entries, index, direction) ==
  LET step == IF direction = "up" THEN index - 1 ELSE index + 1
      targetIndex == IF step < 1 THEN Len(entries)
                     ELSE IF step > Len(entries) THEN 1 ELSE step
  IN [entries EXCEPT ![index] = entries[targetIndex],
                     ![targetIndex] = entries[index]]

\* LedgerDetails.tsx moveEntry, which calls handleReorderEntries (lines 421-425).
moveEntry(entries, index, direction) ==
  LET targetIndex == IF direction = "up" THEN index - 1 ELSE index + 1
  IN IF targetIndex < 1 \/ targetIndex > Len(entries) THEN entries
     ELSE [entries EXCEPT ![index] = entries[targetIndex],
                          ![targetIndex] = entries[index]]

handleReorderEntries(ledgerId, index, direction) ==
  /\ ops < MaxOps
  /\ ledgerId \in LedgerIds
  /\ index \in 1..Len(LedgerOf(ledgerId).entries)
  /\ LET newEntries == moveEntry(LedgerOf(ledgerId).entries, index, direction)
         Put == [l \in Range(ledgers) |-> newEntries]
     IN IF newEntries = LedgerOf(ledgerId).entries
        THEN \* moveEntry line 109 returns: onReorder is not called
             /\ ledgers' = ledgers
             /\ last' = Step("moveEntry_return", "", FALSE)
        ELSE /\ ledgers' = MapEntries(ledgers, ledgerId, Put)
             /\ last' = Step("handleReorderEntries", "", FALSE)
  /\ ops' = ops + 1
  /\ UNCHANGED <<view, activeLedgerId, ledgerError, isDeleting, loader, tasks, dbLedgers, dbEntries,
                 dbAtts, blobs, nextId, now, user>>

\* -------------------------------------------------- deleteEntry, bulkDelete
\* handleDeleteEntry lines 325-336 and handleBulkDeleteEntries lines 354-365:
\* showLoading, getUser, and the optimistic removal of the ids.
\* Faulty variant: the filter keeps the named entries and drops the others.
RemoveEntries_keepsNamed(prev, ledgerId, entryIds) ==
  LET Keep(e) == e.id \in entryIds
      Rest == [l \in Range(prev) |-> SelectSeq(l.entries, Keep)]
  IN MapEntries(prev, ledgerId, Rest)

RemoveEntries(prev, ledgerId, entryIds) ==
  LET Keep(e) == e.id \notin entryIds
      Rest == [l \in Range(prev) |-> SelectSeq(l.entries, Keep)]
  IN MapEntries(prev, ledgerId, Rest)

OptimisticDelete(op, ledgerId, entryIds) ==
  /\ CanCall
  /\ ledgers' = RemoveEntries(ledgers, ledgerId, entryIds)
  /\ loader' = showLoading(loader)
  /\ tasks' = [tasks EXCEPT ![FreeSlot] =
                 [Idle EXCEPT !.op = op, !.pc = "remote", !.lid = ledgerId,
                              !.ids = entryIds, !.uid = user]]
  /\ ops' = ops + 1
  /\ last' = Step(op, "", FALSE)
  /\ UNCHANGED <<view, activeLedgerId, ledgerError, isDeleting, dbLedgers, dbEntries, dbAtts, blobs,
                 nextId, now, user>>

handleDeleteEntry(ledgerId, entryId) ==
  OptimisticDelete("handleDeleteEntry", ledgerId, {entryId})

handleBulkDeleteEntries(ledgerId, entryIds) ==
  OptimisticDelete("handleBulkDeleteEntries", ledgerId, entryIds)

\* The remote delete of entry rows (their attachment rows go with them).
DeleteEntryRows(gone) ==
  /\ dbEntries' = dbEntries \ gone
  /\ dbAtts' = {a \in dbAtts : \A e \in gone : a.entry_id # e.id}

\* Lines 338-342 and 367-371: from('entries').delete() filtered by id and user_id.
DeleteEntries_remote(s) ==
  /\ tasks[s].op \in {"handleDeleteEntry", "handleBulkDeleteEntries"}
  /\ tasks[s].pc = "remote"
  /\ \E r \in Outcomes("delete", tasks[s].uid) :
       /\ tasks' = [tasks EXCEPT ![s].pc = "resp", ![s].res = r]
       /\ IF r = "ok"
          THEN DeleteEntryRows({e \in dbEntries : e.id \in tasks[s].ids})
          ELSE UNCHANGED <<dbEntries, dbAtts>>
  /\ last' = Step("DeleteEntries_remote", "", TRUE)
  /\ UNCHANGED <<view, activeLedgerId, ledgers, ledgerError, isDeleting, loader, dbLedgers, blobs,
                 nextId, now, user, ops>>

\* Lines 344-351 and 373-379: the response; on an error fetchData() is called
\* (not awaited) and, for a single delete, an alert is raised.
DeleteEntries_resolve(s) ==
  /\ tasks[s].op \in {"handleDeleteEntry", "handleBulkDeleteEntries"}
  /\ tasks[s].pc = "resp"
  /\ IF tasks[s].res = "error"
     THEN /\ \E t \in FetchTasks("recovery") : tasks' = [tasks EXCEPT ![s] = t]
          /\ loader' = hideLoading(showLoading(loader))
          /\ last' = Step(tasks[s].op \o "_error",
                          IF tasks[s].op = "handleDeleteEntry"
                          THEN "Failed to delete entry from cloud. Restoring list..."
                          ELSE "", TRUE)
     ELSE /\ tasks' = [tasks EXCEPT ![s] = Idle]
          /\ loader' = hideLoading(loader)
          /\ last' = Step(tasks[s].op \o "_done", "", FALSE)
  /\ UNCHANGED <<view, activeLedgerId, ledgers, ledgerError, isDeleting, dbLedgers, dbEntries, dbAtts,
                 blobs, nextId, now, user, ops>>

\* ------------------------------------------------------ processAttachment
\* Faulty variant: the guard of line 109 left out: every attachment is uploaded.
NeedsUpload_always(att) == att = att

\* processAttachment line 109: the attachment still has to be uploaded.
NeedsUpload(att) ==
  Truthy(att.data) /\ StartsWithData(att.data) /\ att.file_path = NoPath

\* Promise.all(attachments.map(att => processAttachment(att, userId, entryId))):
\* each call runs to its first await; one that needs no upload has returned att.
StartUploads(attachments) ==
  [i \in 1..Len(attachments) |->
     [in |-> attachments[i], out |-> attachments[i],
      st |-> IF NeedsUpload(attachments[i]) THEN "pending" ELSE "done"]]

AllDone(atts) == \A i \in 1..Len(atts) : atts[i].st \in {"done", "failed"}
Outs(atts) == [i \in 1..Len(atts) |-> atts[i].out]

\* Faulty variant: the catch block returns the attachment with its data dropped.
processAttachment_catch_cleared(att) == [att EXCEPT !.data = ""]

\* Faulty variant: the catch block returns the attachment with the path it
\* tried.
processAttachment_catch_partial(att) ==
  [att EXCEPT !.file_path = <<UserId, 0, att.file_name>>]

\* processAttachment lines 153-156: the catch block returns the attachment it
\* was given.
processAttachment_catch(att) == att

\* Faulty variant: the returned attachment keeps its data.
processAttachment_done_keepsData(att, id, filePath) ==
  [att EXCEPT !.id = id, !.file_path = filePath, !.url = PublicUrl(filePath)]

\* processAttachment lines 146-152: the attachment returned after the upload.
processAttachment_done(att, id, filePath) ==
  [att EXCEPT !.id = id, !.file_path = filePath, !.url = PublicUrl(filePath),
              !.data = ""]

\* processAttachment line 114
FilePath(userId, entryId, att) == <<userId, entryId, att.file_name>>

\* Faulty variant: the uploads keyed by the id the form gave the entry.
UploadEntryId_form(t) == t.entry.id

\* The entry id the uploads of a handler are keyed by: the inserted row's in
\* handleAddEntry (line 296), the edited entry's in handleUpdateEntry (line 405).
UploadEntryId(t) == IF t.op = "handleAddEntry" THEN t.row.id ELSE t.entry.id

\* processAttachment lines 111-123: decode, then storage.upload(filePath, blob,
\* {upsert: true}); a failure is caught (lines 153-156) and returns att.
processAttachment_upload(s, i) ==
  /\ tasks[s].pc = "uploads"
  /\ i \in 1..Len(tasks[s].atts)
  /\ tasks[s].atts[i].st = "pending"
  /\ LET att == tasks[s].atts[i].in
         filePath == FilePath(tasks[s].uid, UploadEntryId(tasks[s]), att)
     IN \E r \in Outcomes("insert", tasks[s].uid) :
          IF r = "ok"
          THEN /\ blobs' = {b \in blobs : b.path # filePath}
                             \cup {[path |-> filePath, by |-> att.id]}
               /\ tasks' = [tasks EXCEPT ![s].atts[i].st = "uploaded"]
          ELSE /\ blobs' = blobs
               /\ tasks' = [tasks EXCEPT ![s].atts[i].st = "failed",
                                         ![s].atts[i].out = processAttachment_catch(att)]
  /\ last' = Step("processAttachment_upload", "", TRUE)
  /\ UNCHANGED <<view, activeLedgerId, ledgers, ledgerError, isDeleting, loader, dbLedgers, dbEntries,
                 dbAtts, nextId, now, user, ops>>

\* processAttachment lines 125-156: the insert of the metadata row and the
\* attachment returned; a failure is caught and returns att.
processAttachment_insert(s, i) ==
  /\ tasks[s].pc = "uploads"
  /\ i \in 1..Len(tasks[s].atts)
  /\ tasks[s].atts[i].st = "uploaded"
  /\ LET att == tasks[s].atts[i].in
         entryId == UploadEntryId(tasks[s])
         filePath == FilePath(tasks[s].uid, entryId, att)
         attachmentRow == [id |-> nextId, entry_id |-> entryId,
                           file_name |-> att.file_name, file_path |-> filePath]
         entryThere == \E e \in dbEntries : e.id = entryId
     IN \E r \in Outcomes("insert", tasks[s].uid) :
          IF r = "ok" /\ entryThere
          THEN /\ dbAtts' = dbAtts \cup {attachmentRow}
               /\ nextId' = nextId + 1
               /\ tasks' = [tasks EXCEPT
                    ![s].atts[i] =
                       [in |-> att, st |-> "done",
                        out |-> processAttachment_done(att, attachmentRow.id, filePath)]]
          ELSE /\ UNCHANGED <<dbAtts, nextId>>
               /\ tasks' = [tasks EXCEPT ![s].atts[i].st = "failed",
                                         ![s].atts[i].out = processAttachment_catch(att)]
  /\ last' = Step("processAttachment_insert", "", TRUE)
  /\ UNCHANGED <<view, activeLedgerId, ledgers, ledgerError, isDeleting, loader, dbLedgers, dbEntries,
                 blobs, now, user, ops>>

\* ---------------------------------------------------------------- addEntry
\* The entries the add form can submit (EntryForm.handleSubmit).
NewEntries ==
  { [id |-> 0, type |-> "out", dateTime |-> d, amount |-> 5, attachments |-> a]
    : d \in Dates, a \in {<<>>, <<FormAttachment(100, "f")>>} }
    \cup \* the amount field is a number input without a minimum
         { [id |-> 0, type |-> "in", dateTime |-> 1, amount |-> 0 - 5,
            attachments |-> <<>>] }

\* handleAddEntry lines 271-303: showLoading, getUser, the insert of the entry
\* row, and the start of the uploads.
handleAddEntry(ledgerId, entry) ==
  /\ CanCall
  /\ ops' = ops + 1
  /\ IF user = NoUser
     THEN \* line 276 throws; lines 317-322
          /\ loader' = hideLoading(showLoading(loader))
          /\ last' = Step("handleAddEntry_error", "Error adding entry: Not authenticated", FALSE)
          /\ UNCHANGED <<tasks, dbEntries, nextId>>
     ELSE /\ loader' = showLoading(loader)
          /\ last' = Step("handleAddEntry", "", TRUE)
          /\ LET entryData == [id |-> nextId, type |-> entry.type,
                               dateTime |-> entry.dateTime, amount |-> entry.amount,
                               attachments |-> <<>>]
                 ledgerThere == \E l \in dbLedgers : l.id = ledgerId
                 t == [Idle EXCEPT !.op = "handleAddEntry", !.lid = ledgerId,
                                   !.entry = entry, !.uid = user]
             IN \E r \in Outcomes("insert", user) :
                  IF r = "ok" /\ ledgerThere
                  THEN /\ dbEntries' = dbEntries \cup
                            {[id |-> nextId, ledger_id |-> ledgerId, type |-> entry.type,
                              date_time |-> entry.dateTime, amount |-> entry.amount]}
                       /\ nextId' = nextId + 1
                       /\ tasks' = [tasks EXCEPT ![FreeSlot] =
                            [t EXCEPT !.res = "ok", !.row = entryData,
                                      !.atts = StartUploads(entry.attachments),
                                      !.pc = IF AllDone(StartUploads(entry.attachments))
                                             THEN "resp" ELSE "uploads"]]
                  ELSE /\ UNCHANGED <<dbEntries, nextId>>
                       /\ tasks' = [tasks EXCEPT ![FreeSlot] =
                            [t EXCEPT !.res = "error", !.pc = "resp"]]
  /\ UNCHANGED <<view, activeLedgerId, ledgers, ledgerError, isDeleting, dbLedgers, dbAtts, blobs, now, user>>

\* handleAddEntry lines 305-322: the entry with its attachments goes into the
\* ledger and the list is sorted; or the error is alerted.
handleAddEntry_set(prev, t) ==
  IF t.res = "error" THEN prev
  ELSE LET newEntry == [t.row EXCEPT !.attachments = Outs(t.atts)]
           Added == [l \in Range(prev) |-> SortByDateTime(Append(l.entries, newEntry))]
       IN MapEntries(prev, t.lid, Added)

handleAddEntry_resolve(s) ==
  /\ tasks[s].op = "handleAddEntry"
  /\ \/ tasks[s].pc = "resp"
     \/ tasks[s].pc = "uploads" /\ AllDone(tasks[s].atts)
  /\ ledgers' = handleAddEntry_set(ledgers, tasks[s])
  /\ last' = IF tasks[s].res = "error"
             THEN Step("handleAddEntry_error", "Error adding entry: Check RLS policies.", FALSE)
             ELSE Step("handleAddEntry_done", "", FALSE)
  /\ loader' = hideLoading(loader)
  /\ tasks' = [tasks EXCEPT ![s] = Idle]
  /\ UNCHANGED <<view, activeLedgerId, ledgerError, isDeleting, dbLedgers, dbEntries, dbAtts, blobs,
                 nextId, now, user, ops>>

\* ------------------------------------------------------------- updateEntry
\* What the edit form can submit for entry e: another dateTime, the
\* attachments removed, or one new attachment (another file) added.
EditedEntries(e) ==
  { [e EXCEPT !.dateTime = d] : d \in Dates }
    \cup { [e EXCEPT !.attachments = <<>>],
           [e EXCEPT !.attachments = Append(@, FormAttachment(101, "g"))] }

\* handleUpdateEntry lines 382-406: showLoading, getUser, the update of the
\* entry row, and the start of the uploads.
handleUpdateEntry(ledgerId, entry) ==
  /\ CanCall
  /\ ops' = ops + 1
  /\ IF user = NoUser
     THEN \* line 387 returns; line 417
          /\ loader' = hideLoading(showLoading(loader))
          /\ last' = Step("handleUpdateEntry_nouser", "", FALSE)
          /\ UNCHANGED <<tasks, dbEntries>>
     ELSE /\ loader' = showLoading(loader)
          /\ last' = Step("handleUpdateEntry", "", TRUE)
          /\ LET t == [Idle EXCEPT !.op = "handleUpdateEntry", !.lid = ledgerId,
                                   !.entry = entry, !.uid = user]
             IN \E r \in Outcomes("update", user) :
                  IF r = "ok"
                  THEN /\ dbEntries' =
                            { IF e.id = entry.id
                              THEN [e EXCEPT !.type = entry.type,
                                             !.date_time = entry.dateTime,
                                             !.amount = entry.amount]
                              ELSE e : e \in dbEntries }
                       /\ tasks' = [tasks EXCEPT ![FreeSlot] =
                            [t EXCEPT !.res = "ok",
                                      !.atts = StartUploads(entry.attachments),
                                      !.pc = IF AllDone(StartUploads(entry.attachments))
                                             THEN "resp" ELSE "uploads"]]
                  ELSE /\ UNCHANGED dbEntries
                       /\ tasks' = [tasks EXCEPT ![FreeSlot] =
                            [t EXCEPT !.res = "error", !.pc = "resp"]]
  /\ UNCHANGED <<view, activeLedgerId, ledgers, ledgerError, isDeleting, dbLedgers, dbAtts, blobs,
                 nextId, now, user>>

\* handleUpdateEntry lines 408-418: the entry is replaced in place and the list
\* sorted; an error is only logged.
\* Faulty variant: the entry goes into the list with the attachments as they
\* were submitted, not as the uploads returned them.
handleUpdateEntry_set_submitted(prev, t) ==
  IF t.res = "error" THEN prev
  ELSE LET Updated ==
             [l \in Range(prev) |->
               SortByDateTime(MapSeq(l.entries,
                 [e \in Range(l.entries) |-> IF e.id = t.entry.id THEN t.entry ELSE e]))]
       IN MapEntries(prev, t.lid, Updated)

handleUpdateEntry_set(prev, t) ==
  IF t.res = "error" THEN prev
  ELSE LET entry == [t.entry EXCEPT !.attachments = Outs(t.atts)]
           Updated ==
             [l \in Range(prev) |->
               SortByDateTime(MapSeq(l.entries,
                 [e \in Range(l.entries) |-> IF e.id = entry.id THEN entry ELSE e]))]
       IN MapEntries(prev, t.lid, Updated)

handleUpdateEntry_resolve(s) ==
  /\ tasks[s].op = "handleUpdateEntry"
  /\ \/ tasks[s].pc = "resp"
     \/ tasks[s].pc = "uploads" /\ AllDone(tasks[s].atts)
  /\ ledgers' = handleUpdateEntry_set(ledgers, tasks[s])
  /\ last' = IF tasks[s].res = "error"
             THEN Step("handleUpdateEntry_error", "", FALSE)
             ELSE Step("handleUpdateEntry_done", "", FALSE)
  /\ loader' = hideLoading(loader)
  /\ tasks' = [tasks EXCEPT ![s] = Idle]
  /\ UNCHANGED <<view, activeLedgerId, ledgerError, isDeleting, dbLedgers, dbEntries, dbAtts, blobs,
                 nextId, now, user, ops>>

\* ------------------------------------------------------------ createLedger
\* What the user types into a name field.
NameInputs == {"trips ", "Food", "  "}

\* Faulty variant: the ledger itself is not left out of the comparison.
isDuplicate_includesSelf(prev, self, trimmedName) ==
  \E i \in 1..Len(prev) :
    ToLowerCase(Trim(prev[i].name)) = ToLowerCase(trimmedName)

\* Faulty variant: the comparison without toLowerCase.
isDuplicate_caseSensitive(prev, self, trimmedName) ==
  \E i \in 1..Len(prev) :
    /\ prev[i].id # self
    /\ Trim(prev[i].name) = trimmedName

\* handleCreateLedger line 167 (self = 0) and handleUpdateLedger line 243.
isDuplicate(prev, self, trimmedName) ==
  \E i \in 1..Len(prev) :
    /\ prev[i].id # self
    /\ ToLowerCase(Trim(prev[i].name)) = ToLowerCase(trimmedName)

\* handleCreateLedger lines 161-185: the checks, showLoading, getUser and the
\* insert of the ledger row.
handleCreateLedger(newLedgerName) ==
  LET trimmedName == Trim(newLedgerName)
  IN /\ CanCall
     /\ ops' = ops + 1
     /\ IF trimmedName = ""
        THEN /\ last' = StepOf("handleCreateLedger_blank", "", FALSE, newLedgerName)
             /\ UNCHANGED <<ledgerError, loader, tasks, dbLedgers, nextId, now>>
        ELSE IF isDuplicate(ledgers, 0, trimmedName)
        THEN /\ ledgerError' = "Ledger already exists"
             /\ last' = StepOf("handleCreateLedger_duplicate", "", FALSE, newLedgerName)
             /\ UNCHANGED <<loader, tasks, dbLedgers, nextId, now>>
        ELSE /\ loader' = showLoading(loader)
             /\ ledgerError' = ""
             /\ LET t == [Idle EXCEPT !.op = "handleCreateLedger", !.pc = "resp",
                                      !.name = trimmedName, !.uid = user]
                    data == [id |-> nextId, name |-> trimmedName, created_at |-> now]
                IN IF user = NoUser
                   THEN \* line 176 throws
                        /\ tasks' = [tasks EXCEPT ![FreeSlot] = [t EXCEPT !.res = "nouser"]]
                        /\ last' = StepOf("handleCreateLedger", "", FALSE, newLedgerName)
                        /\ UNCHANGED <<dbLedgers, nextId, now>>
                   ELSE /\ last' = StepOf("handleCreateLedger", "", TRUE, newLedgerName)
                        /\ \E r \in Outcomes("insert", user) :
                             IF r = "ok"
                             THEN /\ dbLedgers' = dbLedgers \cup {data}
                                  /\ nextId' = nextId + 1
                                  /\ now' = now + 1
                                  /\ tasks' = [tasks EXCEPT ![FreeSlot] =
                                       [t EXCEPT !.res = "ok", !.lrow = data]]
                             ELSE /\ UNCHANGED <<dbLedgers, nextId, now>>
                                  /\ tasks' = [tasks EXCEPT ![FreeSlot] =
                                       [t EXCEPT !.res = "error"]]
     /\ UNCHANGED <<view, activeLedgerId, ledgers, isDeleting, dbEntries, dbAtts, blobs, user>>

\* handleCreateLedger lines 187-205: the new ledger is put in front, or the
\* error is shown in the dialog.
\* Faulty variant: the new ledger is put at the end.
handleCreateLedger_set_append(prev, t) ==
  IF t.res # "ok" THEN prev
  ELSE Append(prev, [id |-> t.lrow.id, name |-> t.lrow.name,
                     createdAt |-> GetTime(t.lrow.created_at), entries |-> <<>>])

handleCreateLedger_set(prev, t) ==
  IF t.res # "ok" THEN prev
  ELSE LET data == t.lrow
           newLedger == [id |-> data.id, name |-> data.name,
                         createdAt |-> GetTime(data.created_at), entries |-> <<>>]
       IN <<newLedger>> \o prev

handleCreateLedger_resolve(s) ==
  /\ tasks[s].op = "handleCreateLedger" /\ tasks[s].pc = "resp"
  /\ ledgers' = handleCreateLedger_set(ledgers, tasks[s])
  /\ IF tasks[s].res = "ok"
     THEN /\ ledgerError' = ledgerError
          /\ last' = Step("handleCreateLedger_done", "", FALSE)
     ELSE /\ ledgerError' = "Failed to create ledger"
          /\ last' = Step("handleCreateLedger_error", "", FALSE)
  /\ loader' = hideLoading(loader)
  /\ tasks' = [tasks EXCEPT ![s] = Idle]
  /\ UNCHANGED <<view, activeLedgerId, isDeleting, dbLedgers, dbEntries, dbAtts, blobs, nextId, now, user, ops>>

\* ------------------------------------------------------------ deleteLedger
\* confirmDelete lines 208-216: isDeleting, showLoading and the delete of the
\* ledger's entry rows.  The dialog's button is disabled while isDeleting.
confirmDelete(deleteConfirmationId) ==
  /\ CanCall
  /\ ~isDeleting
  /\ isDeleting' = TRUE
  /\ loader' = showLoading(loader)
  /\ ops' = ops + 1
  /\ \E r \in Outcomes("delete", UserId) :
       /\ tasks' = [tasks EXCEPT ![FreeSlot] =
            [Idle EXCEPT !.op = "confirmDelete", !.pc = "entries",
                         !.lid = deleteConfirmationId, !.res = r,
                         !.active = activeLedgerId]]
       /\ IF r = "ok"
          THEN DeleteEntryRows({e \in dbEntries : e.ledger_id = deleteConfirmationId})
          ELSE UNCHANGED <<dbEntries, dbAtts>>
  /\ last' = Step("confirmDelete", "", TRUE)
  /\ UNCHANGED <<view, activeLedgerId, ledgers, ledgerError, dbLedgers, blobs, nextId, now, user>>

\* confirmDelete lines 218-223: the entries are gone, the ledger row is deleted.
confirmDelete_ledger(s) ==
  /\ tasks[s].op = "confirmDelete" /\ tasks[s].pc = "entries"
  /\ tasks[s].res # "error"
  /\ \E r \in Outcomes("delete", UserId) :
       /\ tasks' = [tasks EXCEPT ![s].pc = "ledger", ![s].res = r]
       /\ dbLedgers' = IF r = "ok" THEN {l \in dbLedgers : l.id # tasks[s].lid}
                       ELSE dbLedgers
  /\ last' = Step("confirmDelete_ledger", "", TRUE)
  /\ UNCHANGED <<view, activeLedgerId, ledgers, ledgerError, isDeleting, loader, dbEntries, dbAtts, blobs,
                 nextId, now, user, ops>>

\* confirmDelete lines 225-236: the ledger leaves the collection, or the
\* failure of either delete is alerted.
\* Faulty variant: the ledger leaves the collection whatever the deletes
\* returned.
confirmDelete_set_always(prev, t) ==
  LET Other(l) == l.id # t.lid
  IN SelectSeq(prev, Other)

confirmDelete_set(prev, t) ==
  IF t.res = "error" THEN prev
  ELSE LET Other(l) == l.id # t.lid
       IN SelectSeq(prev, Other)

confirmDelete_resolve(s) ==
  /\ tasks[s].op = "confirmDelete"
  /\ \/ tasks[s].pc = "ledger"
     \/ tasks[s].pc = "entries" /\ tasks[s].res = "error"
  /\ ledgers' = confirmDelete_set(ledgers, tasks[s])
  /\ last' = IF tasks[s].res = "error"
             THEN Step("confirmDelete_error", "Delete failed. Please try again.", FALSE)
             ELSE Step("confirmDelete_done", "", FALSE)
  /\ isDeleting' = FALSE
  /\ loader' = hideLoading(loader)
  /\ tasks' = [tasks EXCEPT ![s] = Idle]
  /\ activeLedgerId' =
       \* line 228, with the activeLedgerId of the render confirmDelete ran in
       IF tasks[s].res # "error" /\ tasks[s].active = tasks[s].lid
       THEN NoLedger ELSE activeLedgerId
  /\ UNCHANGED <<view, ledgerError, dbLedgers, dbEntries, dbAtts, blobs, nextId, now, user, ops>>

\* ------------------------------------------------------------ renameLedger
\* What a rename can pass: a name, and createdAt absent or a time in
\* milliseconds.
RenameInputs ==
  { [name |-> n, createdAt |-> [has |-> FALSE, ms |-> 0]] : n \in NameInputs }
    \cup { [name |-> "Food", createdAt |-> [has |-> TRUE, ms |-> m]] : m \in {0, 5} }

\* handleUpdateLedger lines 239-257: the checks, showLoading and the update of
\* the ledger row.
handleUpdateLedger(id, newName, createdAt) ==
  LET trimmedName == Trim(newName)
  IN /\ CanCall
     /\ ops' = ops + 1
     /\ IF trimmedName = ""
        THEN /\ last' = StepFor("handleUpdateLedger_blank", "", FALSE, newName, id)
             /\ UNCHANGED <<loader, tasks, dbLedgers>>
        ELSE IF isDuplicate(ledgers, id, trimmedName)
        THEN /\ last' = StepFor("handleUpdateLedger_duplicate",
                                "Ledger with this name already exists", FALSE, newName, id)
             /\ UNCHANGED <<loader, tasks, dbLedgers>>
        ELSE /\ loader' = showLoading(loader)
             /\ last' = StepFor("handleUpdateLedger", "", TRUE, newName, id)
             /\ \E r \in Outcomes("update", UserId) :
                  /\ tasks' = [tasks EXCEPT ![FreeSlot] =
                       [Idle EXCEPT !.op = "handleUpdateLedger", !.pc = "resp",
                                    !.lid = id, !.name = trimmedName,
                                    !.hasCreatedAt = createdAt.has,
                                    !.createdAt = createdAt.ms, !.res = r]]
                  /\ dbLedgers' =
                       IF r # "ok" THEN dbLedgers
                       ELSE { IF l.id # id THEN l
                              ELSE [l EXCEPT
                                      !.name = trimmedName,
                                      !.created_at =
                                         \* line 252: if (createdAt)
                                         IF createdAt.has /\ createdAt.ms # 0
                                         THEN ToISOString(createdAt.ms) ELSE @]
                              : l \in dbLedgers }
     /\ UNCHANGED <<view, activeLedgerId, ledgers, ledgerError, isDeleting, dbEntries, dbAtts, blobs,
                    nextId, now, user>>

\* handleUpdateLedger lines 259-268: the ledger is patched in place; an error
\* is only logged.
\* Faulty variant: the patch applied whatever the update returned.
handleUpdateLedger_set_always(prev, t) ==
  [i \in 1..Len(prev) |->
     IF prev[i].id = t.lid
     THEN [prev[i] EXCEPT !.name = t.name,
                          !.createdAt = IF t.hasCreatedAt THEN t.createdAt ELSE @]
     ELSE prev[i]]

handleUpdateLedger_set(prev, t) ==
  IF t.res = "error" THEN prev
  ELSE [i \in 1..Len(prev) |->
          IF prev[i].id = t.lid
          THEN [prev[i] EXCEPT
                  !.name = t.name,
                  \* line 261: createdAt ?? l.createdAt
                  !.createdAt = IF t.hasCreatedAt THEN t.createdAt ELSE @]
          ELSE prev[i]]

\* LedgerCard.handleUpdate (unnamed/part_001 lines 15-25) with the date field
\* as the card set it up: the name typed, if it is not blank, goes to onUpdate
\* with the start of the day of the ledger's createdAt.
LedgerCard_handleUpdate(id, editName) ==
  /\ Trim(editName) # ""
  /\ handleUpdateLedger(id, editName,
                        [has |-> TRUE, ms |-> DayStart(LedgerOf(id).createdAt)])

handleUpdateLedger_resolve(s) ==
  /\ tasks[s].op = "handleUpdateLedger" /\ tasks[s].pc = "resp"
  /\ ledgers' = handleUpdateLedger_set(ledgers, tasks[s])
  /\ last' = IF tasks[s].res = "error"
             THEN Step("handleUpdateLedger_error", "", FALSE)
             ELSE Step("handleUpdateLedger_done", "", FALSE)
  /\ loader' = hideLoading(loader)
  /\ tasks' = [tasks EXCEPT ![s] = Idle]
  /\ UNCHANGED <<view, activeLedgerId, ledgerError, isDeleting, dbLedgers, dbEntries, dbAtts, blobs,
                 nextId, now, user, ops>>

\* ----------------------------------------------------------------- session
\* The session ends (sign-out in another tab, expiry): getUser() yields no user.
SessionEnds ==
  /\ ops < MaxOps
  /\ user = UserId
  /\ user' = NoUser
  /\ ops' = ops + 1
  /\ last' = Step("SessionEnds", "", FALSE)
  /\ UNCHANGED <<view, activeLedgerId, ledgers, ledgerError, isDeleting, loader, tasks, dbLedgers,
                 dbEntries, dbAtts, blobs, nextId, now>>

\* ------------------------------------------------- derived values (view)
\* LedgerDetails.tsx tableData lines 50-57: every entry with the balance after
\* it, accumulated in currentBalance.
RECURSIVE tableData_from(_, _)
tableData_from(entries, currentBalance) ==
  IF entries = <<>> THEN <<>>
  ELSE LET entry == Head(entries)
           balance == IF entry.type = "in" THEN Plus(currentBalance, entry.amount)
                      ELSE Minus(currentBalance, entry.amount)
       IN <<[id |-> entry.id, type |-> entry.type, dateTime |-> entry.dateTime,
             amount |-> entry.amount, attachments |-> entry.attachments,
             balance |-> balance]>>
          \o tableData_from(Tail(entries), balance)

\* Faulty variant: currentBalance declared inside the map callback: nothing carries.
tableData_noCarry(entries) ==
  [k \in 1..Len(entries) |-> tableData_from(<<entries[k]>>, 0)[1]]

tableData(entries) == tableData_from(entries, 0)

\* entries.filter(e => e.type === type).reduce((sum, e) => sum + e.amount, 0)
RECURSIVE ReduceAmounts(_)
ReduceAmounts(entries) ==
  IF entries = <<>> THEN 0
  ELSE Plus(ReduceAmounts(SubSeq(entries, 1, Len(entries) - 1)),
            entries[Len(entries)].amount)

\* LedgerDetails.tsx stats lines 59-63
stats(entries) ==
  LET IsIn(e) == e.type = "in"
      IsOut(e) == e.type = "out"
      cashIn == ReduceAmounts(SelectSeq(entries, IsIn))
      cashOut == ReduceAmounts(SelectSeq(entries, IsOut))
  IN [cashIn |-> cashIn, cashOut |-> cashOut, net |-> Minus(cashIn, cashOut)]

\* One render of LedgerDetails for a ledger: both memoized values.
Rendered(ledger) ==
  [rendered |-> TRUE, tableData |-> tableData(ledger.entries),
   stats |-> stats(ledger.entries)]

\* What the entry form is given: the type and the amount (parseFloat of the
\* amount field).
FormInputs ==
  { [type |-> "in", amount |-> 100], [type |-> "out", amount |-> 40],
    [type |-> "in", amount |-> 10],  [type |-> "in", amount |-> 63],
    [type |-> "out", amount |-> 4],  [type |-> "in", amount |-> 2] }

\* The entry lists of up to MaxEntries entries, in dateTime order.
RECURSIVE EntryLists(_)
EntryLists(n) ==
  IF n = 0 THEN {<<>>}
  ELSE EntryLists(n - 1) \cup
       { Append(l, [id |-> n, type |-> f.type, dateTime |-> n, amount |-> f.amount,
                    attachments |-> <<>>])
         : l \in {x \in EntryLists(n - 1) : Len(x) = n - 1}, f \in FormInputs }

\* A ledger is open in LedgerDetails and nothing is in flight.
InitDerived ==
  /\ \E entries \in EntryLists(MaxEntries) :
       ledgers = <<[id |-> 1, name |-> "Trips", createdAt |-> 1, entries |-> entries]>>
  /\ view = NoView
  /\ ledgerError = ""
  /\ isDeleting = FALSE
  /\ loader = [shows |-> 1, hides |-> 1]
  /\ user = UserId
  /\ dbLedgers = {}
  /\ dbEntries = {}
  /\ dbAtts = {}
  /\ blobs = {}
  /\ nextId = 6
  /\ now = 3
  /\ ops = 0
  /\ last = Step("mount", "", FALSE)
  /\ activeLedgerId = 1
  /\ tasks = [s \in Slots |-> Idle]

\* LedgerDetails renders: useMemo computes tableData and stats.
LedgerDetails_render ==
  /\ view' = Rendered(ledgers[1])
  /\ last' = Step("LedgerDetails_render", "", FALSE)
  /\ UNCHANGED <<activeLedgerId, ledgers, ledgerError, isDeleting, loader, tasks,
                 dbLedgers, dbEntries, dbAtts, blobs, nextId, now, user, ops>>

\* moveEntry and handleReorderEntries, then the render of the new list.
LedgerDetails_moveEntry(index, direction) ==
  /\ view.rendered
  /\ index \in 1..Len(ledgers[1].entries)
  /\ LET newEntries == moveEntry(ledgers[1].entries, index, direction)
         Put == [l \in Range(ledgers) |-> newEntries]
     IN /\ newEntries # ledgers[1].entries
        /\ ledgers' = MapEntries(ledgers, ledgers[1].id, Put)
        /\ view' = Rendered(ledgers'[1])
  /\ last' = Step("handleReorderEntries", "", FALSE)
  /\ UNCHANGED <<activeLedgerId, ledgerError, isDeleting, loader, tasks, dbLedgers,
                 dbEntries, dbAtts, blobs, nextId, now, user, ops>>

NextDerived ==
  \/ LedgerDetails_render
  \/ \E i \in 1..MaxEntries, d \in {"up", "down"} : LedgerDetails_moveEntry(i, d)

SpecDerived == InitDerived /\ [][NextDerived]_vars

\* ------------------------------------------------------------ the machine
EntryIdsOf(l) == {e.id : e \in Range(LedgerOf(l).entries)}

\* LedgerDetails.tsx handleConfirmDelete lines 74-78: one id goes to
\* onDeleteEntry, any other number of ids to onBulkDelete.
BulkSelections(l) == {ids \in SUBSET EntryIdsOf(l) : Cardinality(ids) # 1}

Next ==
  \/ \E s \in Slots : fetchData_resolve(s)
  \/ \E l \in LedgerIds : \E i \in 1..Len(LedgerOf(l).entries), d \in {"up", "down"} :
       handleReorderEntries(l, i, d)
  \/ \E l \in LedgerIds : \E id \in EntryIdsOf(l) : handleDeleteEntry(l, id)
  \/ \E l \in LedgerIds : \E ids \in BulkSelections(l) : handleBulkDeleteEntries(l, ids)
  \/ \E s \in Slots : DeleteEntries_remote(s)
  \/ \E s \in Slots : DeleteEntries_resolve(s)
  \/ \E l \in LedgerIds : \E e \in NewEntries : handleAddEntry(l, e)
  \/ \E s \in Slots : handleAddEntry_resolve(s)
  \/ \E l \in LedgerIds : \E e \in Range(LedgerOf(l).entries) :
       \E edited \in EditedEntries(e) : handleUpdateEntry(l, edited)
  \/ \E s \in Slots : handleUpdateEntry_resolve(s)
  \/ \E s \in Slots : \E i \in 1..2 : processAttachment_upload(s, i)
  \/ \E s \in Slots : \E i \in 1..2 : processAttachment_insert(s, i)
  \/ \E n \in NameInputs : handleCreateLedger(n)
  \/ \E s \in Slots : handleCreateLedger_resolve(s)
  \/ \E l \in LedgerIds : confirmDelete(l)
  \/ \E s \in Slots : confirmDelete_ledger(s)
  \/ \E s \in Slots : confirmDelete_resolve(s)
  \/ \E l \in LedgerIds : \E r \in RenameInputs :
       handleUpdateLedger(l, r.name, r.createdAt)
  \/ \E l \in LedgerIds : \E n \in NameInputs : LedgerCard_handleUpdate(l, n)
  \/ \E s \in Slots : handleUpdateLedger_resolve(s)
  \/ SessionEnds
  \/ \E l \in LedgerIds : handleOpenLedger(l)
  \/ \E s \in Slots : handleOpenLedger_timeout(s)
  \/ handleBackToDashboard
  \/ \E s \in Slots : handleBackToDashboard_timeout(s)

Spec == Init /\ [][Next]_vars

\* ================================================================ claims
Sorted(entries) ==
  \A i, j \in 1..Len(entries) : i < j => entries[i].dateTime <= entries[j].dateTime

AllSorted == \A i \in 1..Len(ledgers) : Sorted(ledgers[i].entries)

\* The local entries of every ledger.
LocalEntries == UNION {Range(ledgers[i].entries) : i \in 1..Len(ledgers)}

\* An attachment in pending state: local data present, no file path.
IsPending(att) == att.data = "data:image" /\ att.file_path = NoPath

\* C1: after every step that mutates a ledger's entries other than a manual
\* reorder (loadAll, addEntry, updateEntry, deleteEntry, bulkDeleteEntries),
\* every ledger's entries are sorted ascending by dateTime.
C1_SortedAfterEveryMutation ==
  last.act \in {"fetchData", "handleAddEntry_done", "handleUpdateEntry_done",
                "handleDeleteEntry", "handleBulkDeleteEntries"}
    => AllSorted

\* C2: when the recovery fetch that follows a failed deleteEntry or
\* bulkDeleteEntries has finished (with or without an error), the local
\* collection is what a fresh loadAll returns.
C2_RecoveryMatchesFreshLoad ==
  (last.act \in {"fetchData", "fetchData_error"} /\ last.arg = "recovery")
    => ledgers = FreshLoad

\* C3: when addEntry completes after its row insert succeeded, the entry with
\* the server-assigned id is in the owning ledger (if that ledger is in the
\* collection), every attachment whose upload failed is in it as it was
\* submitted, in pending state, and no error is alerted.
C3_AddEntryKeepsFailedAttachment ==
  [][ \A s \in Slots :
        ( /\ tasks[s].op = "handleAddEntry"
          /\ tasks[s].res = "ok"
          /\ tasks'[s].op = "idle"
          /\ tasks[s].lid \in LedgerIds )
        => /\ last'.alert = ""
           /\ \E i \in 1..Len(ledgers') :
                /\ ledgers'[i].id = tasks[s].lid
                /\ \E e \in Range(ledgers'[i].entries) :
                     /\ e.id = tasks[s].row.id
                     /\ Len(e.attachments) = Len(tasks[s].entry.attachments)
                     /\ \A k \in 1..Len(e.attachments) :
                          tasks[s].atts[k].st = "failed"
                            => /\ e.attachments[k] = tasks[s].entry.attachments[k]
                               /\ IsPending(e.attachments[k]) ]_vars

\* C3 witness: an addEntry has just completed and its entry holds a pending
\* attachment.
C3_Witness ==
  /\ last.act = "handleAddEntry_done"
  /\ \E e \in LocalEntries : \E k \in 1..Len(e.attachments) : IsPending(e.attachments[k])

\* C4: an attachment that has a file path when it is handed to the uploader is
\* never in an upload step: it is returned at once, unchanged, and what is
\* returned would be skipped again.
C4_PersistedAttachmentSkipped ==
  \A s \in Slots : \A i \in 1..Len(tasks[s].atts) :
    tasks[s].atts[i].in.file_path # NoPath
      => /\ tasks[s].atts[i].st = "done"
         /\ tasks[s].atts[i].out = tasks[s].atts[i].in
         /\ ~NeedsUpload(tasks[s].atts[i].out)

\* C4 witness: an updateEntry in flight was handed a persisted attachment
\* together with one that needs its upload.
C4_Witness ==
  \E s \in Slots :
    /\ tasks[s].op = "handleUpdateEntry"
    /\ tasks[s].pc = "uploads"
    /\ \E i \in 1..Len(tasks[s].atts) : tasks[s].atts[i].in.file_path # NoPath

\* C5: a createLedger call whose name equals, ignoring case (and surrounding
\* blanks), the name of a ledger of the collection sets the validation error,
\* issues no remote call, starts nothing and leaves the collection unchanged.
C5_DuplicateCreateRejected ==
  [][ ( /\ ops' = ops + 1
        /\ last'.act \in {"handleCreateLedger", "handleCreateLedger_blank",
                          "handleCreateLedger_duplicate"}
        /\ \E i \in 1..Len(ledgers) :
             ToLowerCase(ledgers[i].name) = ToLowerCase(Trim(last'.arg)) )
      => /\ ledgers' = ledgers
         /\ tasks' = tasks
         /\ dbLedgers' = dbLedgers
         /\ ~last'.remote
         /\ ledgerError' = "Ledger already exists" ]_vars

\* C5 witness: createLedger("trips ") was rejected while "Trips" is the one
\* ledger of that name.
C5_Witness ==
  /\ last.act = "handleCreateLedger_duplicate"
  /\ last.arg = "trips "
  /\ Cardinality({i \in 1..Len(ledgers) : ToLowerCase(ledgers[i].name) = "trips"}) = 1
  /\ \E i \in 1..Len(ledgers) : ledgers[i].name = "Trips"

\* C6: a bulkDeleteEntries call with no ids never has a remote delete issued
\* or answered.
C6_EmptyBulkDeleteIsNoOp ==
  \A s \in Slots :
    (tasks[s].op = "handleBulkDeleteEntries" /\ tasks[s].ids = {})
      => tasks[s].pc \notin {"remote", "resp"}

\* The signed amount of an entry and the sum of the first k of them, taken
\* from left to right in the numbers of the program.
SignedAmount(e) == IF e.type = "in" THEN e.amount ELSE 0 - e.amount

RECURSIVE SumSigned(_, _)
SumSigned(entries, k) ==
  IF k = 0 THEN 0 ELSE Number(SumSigned(entries, k - 1) + SignedAmount(entries[k]))

\* C7: the row at index k of the rendered tableData is the entry at index k
\* with, as its balance, the sum of the signed amounts of entries 1..k.
C7_RunningBalance ==
  view.rendered =>
    LET entries == ledgers[1].entries
    IN /\ Len(view.tableData) = Len(entries)
       /\ \A k \in 1..Len(entries) :
            /\ view.tableData[k].balance = SumSigned(entries, k)
            /\ view.tableData[k].id = entries[k].id
            /\ view.tableData[k].type = entries[k].type
            /\ view.tableData[k].amount = entries[k].amount
            /\ view.tableData[k].dateTime = entries[k].dateTime

\* C7 witness: the entries in 100, out 40, in 10 are rendered with the
\* balances 100, 60, 70.
C7_Witness ==
  /\ view.rendered
  /\ Len(view.tableData) = 3
  /\ <<view.tableData[1].amount, view.tableData[2].amount, view.tableData[3].amount>>
       = <<100, 40, 10>>
  /\ <<view.tableData[1].balance, view.tableData[2].balance, view.tableData[3].balance>>
       = <<100, 60, 70>>

\* The sum of the amounts of the entries of one type, from left to right.
RECURSIVE SumOfType(_, _)
SumOfType(entries, type) ==
  IF entries = <<>> THEN 0
  ELSE LET front == SumOfType(SubSeq(entries, 1, Len(entries) - 1), type)
           e == entries[Len(entries)]
       IN IF e.type = type THEN Number(front + e.amount) ELSE front

\* C8: cash-in is the sum of the type-in amounts, cash-out the sum of the
\* type-out amounts, net is cash-in minus cash-out, and net equals the last
\* running balance.
C8_TotalsAndNet ==
  view.rendered =>
    LET entries == ledgers[1].entries
    IN /\ view.stats.cashIn = SumOfType(entries, "in")
       /\ view.stats.cashOut = SumOfType(entries, "out")
       /\ view.stats.net = Number(view.stats.cashIn - view.stats.cashOut)
       /\ entries # <<>> => view.stats.net = view.tableData[Len(entries)].balance

\* A createLedger, renameLedger, addEntry or updateEntry whose remote call
\* (getUser, the insert or the update) reported a failure.
FailedPessimistic(t) ==
  /\ t.op \in {"handleCreateLedger", "handleUpdateLedger",
               "handleAddEntry", "handleUpdateEntry"}
  /\ t.res \in {"error", "nouser"}

\* C9: no step of a createLedger, renameLedger, addEntry or updateEntry whose
\* remote call failed changes the local collection: neither the step in which
\* the call fails nor the step that handles the failure.
C9_PessimisticFailureKeepsLedgers ==
  [][ ( \/ \E s \in Slots :
             /\ tasks'[s] # tasks[s]
             /\ FailedPessimistic(tasks[s]) \/ FailedPessimistic(tasks'[s])
        \/ last'.act \in {"handleCreateLedger_error", "handleUpdateLedger_error",
                          "handleAddEntry_error", "handleUpdateEntry_error"} )
      => ledgers' = ledgers ]_vars

\* C9 witness: a rename whose remote update failed has been handled, with the
\* ledger still under its old name.
C9_Witness ==
  /\ last.act = "handleUpdateLedger_error"
  /\ \E i \in 1..Len(ledgers) : ledgers[i].name = "Trips"

\* C10: when deleteLedger has handled a failure of one of its deletes, a
\* reload is in flight.
C10_DeleteLedgerFailureReloads ==
  last.act = "confirmDelete_error"
    => \E s \in Slots : tasks[s].op = "fetch" /\ tasks[s].name = "recovery"

\* C11: deleteLedger issues the delete of the ledger row only from the point
\* where the delete of the ledger's entries has answered without an error, a
\* ledger row leaves the remote store only in such a step, and the ledger
\* leaves the local collection at the end of deleteLedger only when the
\* delete of the ledger row has answered without an error too.
C11_DeleteLedgerOrder ==
  [][ /\ \A s \in Slots :
           ( /\ tasks'[s].op = "confirmDelete"
             /\ tasks'[s].pc = "ledger"
             /\ tasks[s] # tasks'[s] )
           => /\ tasks[s].pc = "entries"
              /\ tasks[s].res # "error"
      /\ dbLedgers' # dbLedgers /\ dbLedgers' \subseteq dbLedgers
           => \E s \in Slots :
                /\ tasks[s].op = "confirmDelete"
                /\ tasks[s].pc = "entries" /\ tasks[s].res # "error"
                /\ tasks'[s].pc = "ledger"
                /\ \A l \in dbLedgers \ dbLedgers' : l.id = tasks[s].lid
      /\ \A s \in Slots :
           ( /\ tasks[s].op = "confirmDelete"
             /\ tasks'[s].op = "idle"
             /\ ledgers' # ledgers )
           => /\ tasks[s].pc = "ledger"
              /\ tasks[s].res # "error"
              /\ LedgerIds \ {ledgers'[i].id : i \in 1..Len(ledgers')} = {tasks[s].lid}
    ]_vars

\* C11 witness: deleteLedger has finished, the ledger is gone from the local
\* collection and its row and entry rows from the remote store.
C11_Witness ==
  /\ last.act = "confirmDelete_done"
  /\ 1 \notin LedgerIds
  /\ \A l \in dbLedgers : l.id # 1
  /\ \A e \in dbEntries : e.ledger_id # 1

\* C12: in addEntry an attachment is in an upload step only when the insert of
\* the entry row has answered with the row, the upload is keyed by that row's
\* server-assigned id, and an addEntry whose insert failed has no upload at
\* all.
C12_UploadsAfterInsert ==
  \A s \in Slots :
    tasks[s].op = "handleAddEntry"
      => /\ tasks[s].res = "error" => tasks[s].atts = <<>> /\ tasks[s].pc = "resp"
         /\ tasks[s].atts # <<>>
              => /\ tasks[s].res = "ok"
                 /\ tasks[s].row.id # tasks[s].entry.id
                 /\ tasks[s].row.id < nextId
         /\ \A i \in 1..Len(tasks[s].atts) :
              tasks[s].atts[i].st \in {"uploaded", "done"} /\ NeedsUpload(tasks[s].atts[i].in)
                => \E b \in blobs :
                     b.path = FilePath(tasks[s].uid, tasks[s].row.id, tasks[s].atts[i].in)

\* C12 witness: the blob of an addEntry's attachment has been written under
\* the id of the inserted row.
C12_Witness ==
  /\ last.act = "processAttachment_upload"
  /\ \E s \in Slots :
       /\ tasks[s].op = "handleAddEntry"
       /\ tasks[s].atts # <<>>
       /\ tasks[s].atts[1].st = "uploaded"
       /\ \E e \in dbEntries : e.id = tasks[s].row.id

\* C13: an attachment whose blob upload or row insert failed is returned as it
\* was handed in, still pending, with no file path and no url, and the handler
\* that awaits it goes on as after a success.
C13_FailedUploadReturnsOriginal ==
  \A s \in Slots : \A i \in 1..Len(tasks[s].atts) :
    tasks[s].atts[i].st = "failed"
      => /\ tasks[s].atts[i].out = tasks[s].atts[i].in
         /\ IsPending(tasks[s].atts[i].out)
         /\ tasks[s].atts[i].out.url = NoPath
         /\ tasks[s].res = "ok"
         /\ tasks[s].op \in {"handleAddEntry", "handleUpdateEntry"}

\* C13 witness: the blob was written and the insert of the attachment row
\* then failed.
C13_Witness ==
  /\ last.act = "processAttachment_insert"
  /\ \E s \in Slots : \E i \in 1..Len(tasks[s].atts) : tasks[s].atts[i].st = "failed"

\* The attachments of the local collection.
LocalAttachments ==
  UNION {Range(e.attachments) : e \in LocalEntries}

\* An attachment in persisted state: file path set, no local data.
IsPersisted(att) == att.file_path # NoPath /\ ~Truthy(att.data)

\* C14: every attachment of the local collection is pending (data set, no
\* file path) or persisted (file path set, no data), never both and never
\* neither.
C14_AttachmentTwoStates ==
  \A att \in LocalAttachments :
    /\ IsPending(att) \/ IsPersisted(att)
    /\ ~(IsPending(att) /\ IsPersisted(att))

\* C14 witness: the collection holds an attachment as loaded, one persisted by
\* an upload of this session, and one left pending by a failed upload.
C14_Witness ==
  /\ \E att \in LocalAttachments : IsPersisted(att) /\ att.data = Undef
  /\ \E att \in LocalAttachments : IsPersisted(att) /\ att.data = ""
  /\ \E att \in LocalAttachments : IsPending(att)

\* C15: no two ledgers of the local collection have names that are equal
\* ignoring case.
C15_UniqueNamesIgnoringCase ==
  \A i, j \in 1..Len(ledgers) :
    i # j => ToLowerCase(ledgers[i].name) # ToLowerCase(ledgers[j].name)

\* C16: without an account id no write operation gets past its precondition:
\* no addEntry, updateEntry, deleteEntry or bulkDeleteEntries is in flight
\* that found no user, and a createLedger, renameLedger or deleteLedger called
\* without a user issues no remote call.
C16_NoAccountNoWrite ==
  /\ \A s \in Slots :
       tasks[s].op \in {"handleAddEntry", "handleUpdateEntry",
                        "handleDeleteEntry", "handleBulkDeleteEntries"}
         => tasks[s].uid = UserId
  /\ ( /\ user = NoUser
       /\ last.act \in {"handleCreateLedger", "handleUpdateLedger", "confirmDelete"} )
     => ~last.remote

\* C17: every step that handles the failure of a remote call shows the user a
\* message: an alert, or for createLedger the error line of its dialog.
C17_FailuresSurfaced ==
  last.act \in {"fetchData_error", "handleCreateLedger_error",
                "handleUpdateLedger_error", "confirmDelete_error",
                "handleAddEntry_error", "handleUpdateEntry_error",
                "handleDeleteEntry_error", "handleBulkDeleteEntries_error"}
    => \/ last.alert # ""
       \/ last.act = "handleCreateLedger_error" /\ ledgerError # ""

\* C18: a createLedger call with a blank name shows a validation error, issues
\* no remote call and starts nothing.
C18_BlankNameRejected ==
  last.act = "handleCreateLedger_blank"
    => /\ ledgerError # ""
       /\ ~last.remote

\* C19: the step that handles a failed loadAll leaves the local collection as
\* it was.
C19_FailedLoadKeepsLedgers ==
  [][ \A s \in Slots :
        ( /\ tasks[s].op = "fetch"
          /\ tasks[s].res = "error"
          /\ tasks'[s] # tasks[s] )
        => ledgers' = ledgers ]_vars

\* C19 witness: a loadAll has failed while the collection held a ledger with
\* its entries.
C19_Witness ==
  /\ last.act = "fetchData_error"
  /\ \E i \in 1..Len(ledgers) : ledgers[i].entries # <<>>

\* The list s with the elements at k and k + 1 exchanged.
SwapAdjacent(s, k) == [s EXCEPT ![k] = s[k + 1], ![k + 1] = s[k]]

\* C20: a reorderEntries step issues no remote call and starts nothing; it
\* changes the entries of one ledger only, into the list with two adjacent
\* entries exchanged; a move of the first entry up or the last entry down
\* changes nothing; and what a loadAll sets is sorted by dateTime.
C20_ReorderSwapsAdjacent ==
  [][ /\ last'.act = "handleReorderEntries" /\ ops' = ops + 1
        => /\ ~last'.remote
           /\ UNCHANGED <<tasks, dbLedgers, dbEntries, dbAtts, blobs>>
           /\ Len(ledgers') = Len(ledgers)
           /\ \E i \in 1..Len(ledgers) :
                /\ \A j \in 1..Len(ledgers) : j # i => ledgers'[j] = ledgers[j]
                /\ ledgers'[i] = [ledgers[i] EXCEPT !.entries = ledgers'[i].entries]
                /\ \E k \in 1..(Len(ledgers[i].entries) - 1) :
                     ledgers'[i].entries = SwapAdjacent(ledgers[i].entries, k)
      /\ last'.act = "moveEntry_return" /\ ops' = ops + 1
        => /\ ~last'.remote
           /\ UNCHANGED <<ledgers, tasks, dbLedgers, dbEntries, dbAtts, blobs>>
      /\ last'.act = "fetchData" /\ ledgers' # ledgers => AllSorted'
    ]_vars

\* C20 witness: the first two entries of the ledger, of different dateTime,
\* have just been exchanged by hand.
C20_Witness ==
  /\ last.act = "handleReorderEntries"
  /\ \E i \in 1..Len(ledgers) :
       /\ Len(ledgers[i].entries) = 3
       /\ ledgers[i].entries[1].dateTime > ledgers[i].entries[2].dateTime

\* An addEntry or updateEntry whose result is ready to be put into the
\* collection, and what putting it there gives.
ReadyToSet(t) ==
  /\ t.op \in {"handleAddEntry", "handleUpdateEntry"}
  /\ t.res = "ok"
  /\ t.pc = "resp" \/ (t.pc = "uploads" /\ AllDone(t.atts))

SetOf(prev, t) ==
  IF t.op = "handleAddEntry" THEN handleAddEntry_set(prev, t)
  ELSE handleUpdateEntry_set(prev, t)

\* C21: when two addEntry/updateEntry calls on one ledger are both ready to
\* complete, the collection after both is the same whichever completes first.
C21_CompletionOrderIrrelevant ==
  \A s1, s2 \in Slots :
    ( /\ s1 # s2
      /\ ReadyToSet(tasks[s1]) /\ ReadyToSet(tasks[s2])
      /\ tasks[s1].lid = tasks[s2].lid )
    => SetOf(SetOf(ledgers, tasks[s1]), tasks[s2])
         = SetOf(SetOf(ledgers, tasks[s2]), tasks[s1])

\* C22: the remote attachments table holds at most one row per entry id and
\* file name.
C22_OneRowPerEntryAndFile ==
  \A a, b \in dbAtts :
    (a.entry_id = b.entry_id /\ a.file_name = b.file_name) => a = b

\* C23: within one addEntry or updateEntry, two distinct attachments that are
\* uploaded get different storage paths.
C23_IndependentUploadPaths ==
  \A s \in Slots : \A i, j \in 1..Len(tasks[s].atts) :
    ( /\ i # j
      /\ NeedsUpload(tasks[s].atts[i].in) /\ NeedsUpload(tasks[s].atts[j].in)
      /\ tasks[s].atts[i].in.id # tasks[s].atts[j].in.id )
    => FilePath(tasks[s].uid, UploadEntryId(tasks[s]), tasks[s].atts[i].in)
         # FilePath(tasks[s].uid, UploadEntryId(tasks[s]), tasks[s].atts[j].in)

\* C24: the step that completes a successful createLedger puts exactly one
\* ledger in front of the collection, with the id and name of the inserted
\* row and no entries; the ledgers already there follow, unchanged and in
\* their order.
C24_CreatePrepends ==
  [][ \A s \in Slots :
        ( /\ tasks[s].op = "handleCreateLedger"
          /\ tasks[s].res = "ok"
          /\ tasks'[s].op = "idle" )
        => /\ Len(ledgers') = Len(ledgers) + 1
           /\ ledgers'[1].id = tasks[s].lrow.id
           /\ ledgers'[1].name = tasks[s].lrow.name
           /\ ledgers'[1].entries = <<>>
           /\ Tail(ledgers') = ledgers ]_vars

\* C24 witness: "Food" has been created in front of "Trips" and its entries.
C24_Witness ==
  /\ last.act = "handleCreateLedger_done"
  /\ Len(ledgers) = 2
  /\ ledgers[1].name = "Food" /\ ledgers[1].entries = <<>>
  /\ ledgers[2].name = "Trips" /\ Len(ledgers[2].entries) = 3

\* A renameLedger call step, whether it was rejected (no remote call, nothing
\* started, nothing changed), and whether another ledger has the name.
RenameCall ==
  /\ ops' = ops + 1
  /\ last'.act \in {"handleUpdateLedger", "handleUpdateLedger_blank",
                    "handleUpdateLedger_duplicate"}

RenameRejected ==
  /\ ~last'.remote
  /\ UNCHANGED <<tasks, ledgers, dbLedgers>>

OtherHasName ==
  \E i \in 1..Len(ledgers) :
    /\ ledgers[i].id # last'.id
    /\ ToLowerCase(ledgers[i].name) = ToLowerCase(Trim(last'.arg))

\* C25 (as stated): a renameLedger call is rejected exactly when another
\* ledger has the new name ignoring case.
C25_RenameRejectedIffDuplicate ==
  [][ RenameCall => (RenameRejected <=> OtherHasName) ]_vars

\* C25 (amended): a renameLedger call is rejected exactly when the new name is
\* blank or another ledger has it ignoring case; the ledger's own name and its
\* case variants are accepted.
C25_RenameRejectedIffBlankOrDuplicate ==
  [][ RenameCall => (RenameRejected <=> (Trim(last'.arg) = "" \/ OtherHasName)) ]_vars

\* C25 witness: the rename of "Trips" to the name of the other ledger, "Food",
\* has been rejected.
C25_Witness ==
  /\ last.act = "handleUpdateLedger_duplicate"
  /\ last.id = 1
  /\ last.arg = "Food"
  /\ \E i \in 1..Len(ledgers) : ledgers[i].id # 1 /\ ledgers[i].name = "Food"
  /\ \E i \in 1..Len(ledgers) : ledgers[i].id = 1 /\ ledgers[i].name = "Trips"

\* C26: every local entry and every remote entry row has amount >= 0.
C26_AmountsNonNegative ==
  /\ \A e \in LocalEntries : e.amount >= 0
  /\ \A row \in dbEntries : row.amount >= 0

\* The entries of a list that are not among the ids, in the order of the list.
RECURSIVE Without(_, _)
Without(entries, ids) ==
  IF entries = <<>> THEN <<>>
  ELSE IF Head(entries).id \in ids THEN Without(Tail(entries), ids)
  ELSE <<Head(entries)>> \o Without(Tail(entries), ids)

\* This step is a call of deleteEntry or bulkDeleteEntries.
DeleteCall ==
  /\ ops' = ops + 1
  /\ last'.act \in {"handleDeleteEntry", "handleBulkDeleteEntries"}

\* C27: the step that calls deleteEntry or bulkDeleteEntries removes the named
\* ids from the local ledger and issues no remote delete: the rows are still
\* in the remote store and the delete is the operation's next stretch.  The
\* removal takes out exactly the named entries and the other entries of the
\* ledger, and the other ledgers, keep their content and order.  The later
\* remote delete changes nothing locally.
C27_DeleteRemovesLocallyFirst ==
  [][ /\ DeleteCall =>
           \E s \in Slots :
             /\ tasks[s].op = "idle"
             /\ tasks'[s].op = last'.act
             /\ tasks'[s].pc = "remote"
             /\ ~last'.remote
             /\ dbEntries' = dbEntries /\ dbAtts' = dbAtts
             /\ Len(ledgers') = Len(ledgers)
             /\ \A i \in 1..Len(ledgers) :
                  ledgers'[i] =
                    IF ledgers[i].id = tasks'[s].lid
                    THEN [ledgers[i] EXCEPT
                            !.entries = Without(ledgers[i].entries, tasks'[s].ids)]
                    ELSE ledgers[i]
      /\ last'.act = "DeleteEntries_remote" => ledgers' = ledgers
    ]_vars

\* C27 witness: a bulk delete of two of the three entries of "Trips" has been
\* called: one entry is left locally, and the three rows are still remote.
C27_Witness ==
  /\ last.act = "handleBulkDeleteEntries"
  /\ Len(ledgers) = 1
  /\ Len(ledgers[1].entries) = 1
  /\ ledgers[1].entries[1].id = 3
  /\ SeedEntries \subseteq dbEntries
  /\ \E s \in Slots : tasks[s].pc = "remote" /\ tasks[s].ids = {2, 4}

\* The id a mutation in flight works on, for the mutations whose control stays
\* enabled while they run: the edit form's save (an entry id) and the ledger
\* card's rename (a ledger id).  The delete dialogs, whose buttons are disabled
\* while a delete runs, are left out.
MutationTarget(t) ==
  CASE t.op = "handleUpdateEntry"  -> {<<"entry", t.entry.id>>}
    [] t.op = "handleUpdateLedger" -> {<<"ledger", t.lid>>}
    [] OTHER -> {}

\* C28: at most one mutation per ledger or entry id is in flight: no two
\* operations in flight work on the same id.
C28_OneMutationPerId ==
  \A s1, s2 \in Slots :
    s1 # s2 => MutationTarget(tasks[s1]) \cap MutationTarget(tasks[s2]) = {}

\* This step completes the updateEntry of slot s without an error.
UpdateCompletes(s) ==
  /\ tasks[s].op = "handleUpdateEntry"
  /\ tasks[s].res = "ok"
  /\ tasks'[s].op = "idle"

\* C29: when an updateEntry completes, every attachment it was given pending
\* and whose upload succeeded is persisted in the entry of the local
\* collection, and every attachment it was given persisted is there unchanged.
C29_PendingCompletedByUpdate ==
  [][ \A s \in Slots : UpdateCompletes(s) =>
        \A k \in 1..Len(ledgers') : ledgers'[k].id = tasks[s].lid =>
          \A j \in 1..Len(ledgers'[k].entries) :
            ledgers'[k].entries[j].id = tasks[s].entry.id =>
              LET after == ledgers'[k].entries[j].attachments
                  atts  == tasks[s].atts
              IN /\ Len(after) = Len(atts)
                 /\ \A i \in 1..Len(atts) :
                      /\ (IsPending(atts[i].in) /\ atts[i].st = "done")
                           => (IsPersisted(after[i]) /\ after[i].name = atts[i].in.name)
                      /\ IsPersisted(atts[i].in) => after[i] = atts[i].in
    ]_vars

\* C29 witness: entry 3 of the local collection holds the attachment it was
\* loaded with, persisted, and one left pending by a failed upload; an
\* updateEntry on entry 3, called after that failure with another date, is
\* about to complete: the persisted one was skipped and the upload of the
\* pending one has succeeded.
C29_Witness ==
  \E s \in Slots :
    /\ tasks[s].op = "handleUpdateEntry" /\ tasks[s].pc = "uploads"
    /\ tasks[s].entry.id = 3
    /\ tasks[s].entry.dateTime = 1   \* this edit changed the date only
    /\ Len(tasks[s].atts) = 2
    /\ IsPersisted(tasks[s].atts[1].in) /\ tasks[s].atts[1].out = tasks[s].atts[1].in
    /\ IsPending(tasks[s].atts[2].in)
    /\ tasks[s].atts[2].st = "done" /\ IsPersisted(tasks[s].atts[2].out)
    /\ \E e \in LocalEntries :
         e.id = 3 /\ Len(e.attachments) = 2 /\ e.attachments[2] = tasks[s].atts[2].in

\* No two positions of a list hold the same id.
UniqueIds(list) ==
  \A i, j \in 1..Len(list) : list[i].id = list[j].id => i = j

\* C30: in every state the ledger ids of the collection are distinct and the
\* entry ids of each ledger are distinct.
C30_IdsUnique ==
  /\ UniqueIds(ledgers)
  /\ \A k \in 1..Len(ledgers) : UniqueIds(ledgers[k].entries)

\* No operation is in flight.
Quiescent == \A s \in Slots : tasks[s].op = "idle"

\* The rows inserted by createLedger and addEntry (the others were there at
\* the start) that the remote store holds.
InsertedLedgers == {l \in dbLedgers : \A seed \in SeedLedgers : seed.id # l.id}
InsertedEntries == {e \in dbEntries : \A seed \in SeedEntries : seed.id # e.id}

\* C31: once every operation in flight has completed, each ledger and each
\* entry that was inserted remotely and is still in the remote store is in the
\* local collection.
C31_InsertedNeverLost ==
  Quiescent =>
    /\ \A l \in InsertedLedgers : l.id \in LedgerIds
    /\ \A e \in InsertedEntries :
         \E i \in 1..Len(ledgers) :
           /\ ledgers[i].id = e.ledger_id
           /\ \E j \in 1..Len(ledgers[i].entries) : ledgers[i].entries[j].id = e.id

\* The ids of the attachments of a list, and of the attachment rows the remote
\* store holds for an entry.
AttachmentIds(attachments) == {attachments[i].id : i \in 1..Len(attachments)}
RemoteAttachmentIds(attRows, entryId) ==
  {a.id : a \in {r \in attRows : r.entry_id = entryId}}

\* C32: when an updateEntry completes without an error and without a failed
\* upload, the attachments of the entry in the local collection are the
\* attachment rows the remote store holds for the entry.
C32_AttachmentsAsRemote ==
  [][ \A s \in Slots :
        ( /\ UpdateCompletes(s)
          /\ \A i \in 1..Len(tasks[s].atts) : tasks[s].atts[i].st = "done" ) =>
        \A k \in 1..Len(ledgers') : ledgers'[k].id = tasks[s].lid =>
          \A j \in 1..Len(ledgers'[k].entries) :
            ledgers'[k].entries[j].id = tasks[s].entry.id =>
              AttachmentIds(ledgers'[k].entries[j].attachments)
                = RemoteAttachmentIds(dbAtts', tasks[s].entry.id)
    ]_vars

\* This step completes the renameLedger of slot s without an error.
RenameCompletes(s) ==
  /\ tasks[s].op = "handleUpdateLedger"
  /\ tasks[s].res = "ok"
  /\ tasks'[s].op = "idle"

\* C33: when a renameLedger completes without an error, the name and the
\* createdAt of the local ledger are those of its remote row.
C33_RenamedAsRemote ==
  [][ \A s \in Slots : RenameCompletes(s) =>
        \A k \in 1..Len(ledgers') : ledgers'[k].id = tasks[s].lid =>
          \A row \in dbLedgers' : row.id = tasks[s].lid =>
            /\ ledgers'[k].name = row.name
            /\ ledgers'[k].createdAt = GetTime(row.created_at)
    ]_vars

\* C34: the ledgers of the local collection are in createdAt order, newest
\* first.
C34_LedgersNewestFirst ==
  \A i, j \in 1..Len(ledgers) :
    i < j => ledgers[i].createdAt >= ledgers[j].createdAt

\* Slot s takes, in this step, a rename as the ledger card passes it when its
\* date field was not edited.
CardRenameCall(s) ==
  /\ ops' = ops + 1
  /\ tasks[s].op = "idle"
  /\ tasks'[s].op = "handleUpdateLedger"
  /\ tasks'[s].res = "ok"
  /\ tasks'[s].hasCreatedAt
  /\ tasks'[s].createdAt = DayStart(LedgerOf(tasks'[s].lid).createdAt)

\* C35: a rename from the ledger card whose date field was not edited leaves
\* the created_at of the remote row as it is, and its completion leaves the
\* createdAt of the local ledger as it is.
C35_CardRenameKeepsCreatedAt ==
  [][ \A s \in Slots :
        /\ CardRenameCall(s) =>
             \A row \in dbLedgers : row.id = tasks'[s].lid =>
               \E after \in dbLedgers' :
                 after.id = row.id /\ after.created_at = row.created_at
        /\ RenameCompletes(s) =>
             \A k \in 1..Len(ledgers) :
               ( /\ ledgers[k].id = tasks[s].lid
                 /\ tasks[s].hasCreatedAt
                 /\ tasks[s].createdAt = DayStart(ledgers[k].createdAt) )
               => ledgers'[k].createdAt = ledgers[k].createdAt
    ]_vars

EntryOps ==
  {"handleAddEntry", "handleUpdateEntry", "handleDeleteEntry", "handleBulkDeleteEntries"}

\* From this state to the next, only the entries of the ledgers with id lid
\* can differ.
OnlyEntriesOf(lid) ==
  /\ Len(ledgers') = Len(ledgers)
  /\ \A k \in 1..Len(ledgers) :
       /\ ledgers'[k].id = ledgers[k].id
       /\ ledgers'[k].name = ledgers[k].name
       /\ ledgers'[k].createdAt = ledgers[k].createdAt
       /\ ledgers[k].id # lid => ledgers'[k] = ledgers[k]

InFlight == {s \in Slots : tasks[s].op # "idle"}

\* C37: the calls of showLoading not yet answered by a hideLoading are as many
\* as the operations in flight (each holds exactly one); so with no operation
\* in flight hideLoading has been called as often as showLoading and the
\* loader is off.
C37_LoaderBalanced ==
  /\ loader.shows - loader.hides = Cardinality(InFlight)
  /\ Quiescent => loader.hides = loader.shows

\* C37 witness: nothing is in flight after the load of the mount and an
\* updateEntry that returned early for the missing account.
C37_Witness ==
  /\ Quiescent
  /\ last.act = "handleUpdateEntry_nouser"
  /\ loader.shows = 2
  /\ loader.hides = 2

====
